---------------------------- MODULE Spec2Model ----------------------------
(***************************************************************************)
(* kalexmills/spreadsheets: the formula parser, the cell-address codec,    *)
(* the bidirectional dependency graph and the refresh engine of the        *)
(* in-memory Spreadsheet.                                                  *)
(*                                                                         *)
(* Strings are sequences of one-character strings, so that tokenizing and  *)
(* parsing are computed character by character as the Go code does.        *)
(***************************************************************************)
EXTENDS Integers, Sequences, FiniteSets, TLC

(***************************************************************************)
(* Characters                                                              *)
(***************************************************************************)
UpperSeq ==
    << "A", "B", "C", "D", "E", "F", "G", "H", "I", "J", "K", "L", "M",
       "N", "O", "P", "Q", "R", "S", "T", "U", "V", "W", "X", "Y", "Z" >>

DigitSeq ==
    << "0", "1", "2", "3", "4", "5", "6", "7", "8", "9" >>

Range(s) ==
    { s[i] : i \in DOMAIN s }

IndexOf(s, ch) ==
    CHOOSE i \in DOMAIN s : s[i] = ch

UpperSet ==
    Range(UpperSeq)

DigitSet ==
    Range(DigitSeq)

\* between(ch, 'A', 'Z')
IsUpper(ch) ==
    ch \in UpperSet

\* between(ch, '0', '9')
IsDigit(ch) ==
    ch \in DigitSet

(***************************************************************************)
(* The cell-address codec                                                  *)
(***************************************************************************)
RECURSIVE UpperRunEnd(_, _)
\* first index at or after i that holds no uppercase letter (Len+1 if none)
UpperRunEnd(str, i) ==
    IF i > Len(str) \/ ~IsUpper(str[i]) THEN i ELSE UpperRunEnd(str, i + 1)

RECURSIVE DigitRunEnd(_, _)
\* first index at or after i that holds no decimal digit (Len+1 if none)
DigitRunEnd(str, i) ==
    IF i > Len(str) \/ ~IsDigit(str[i]) THEN i ELSE DigitRunEnd(str, i + 1)

RECURSIVE AlnumRunEnd(_, _)
\* first index at or after i that holds neither a letter nor a digit
AlnumRunEnd(str, i) ==
    IF i > Len(str) \/ ~(IsDigit(str[i]) \/ IsUpper(str[i]))
    THEN i
    ELSE AlnumRunEnd(str, i + 1)

\* cellRegexp.FindStringSubmatch: the leftmost match of ([A-Z]+)([0-9]+)
\* anywhere in str (the expression is not anchored), both groups greedy.
\* <<>> when nothing matches, else << whole, letters, digits >>.
cellRegexpFind(str) ==
    LET starts == { s \in 1..Len(str) :
                      /\ IsUpper(str[s])
                      /\ UpperRunEnd(str, s) <= Len(str)
                      /\ IsDigit(str[UpperRunEnd(str, s)]) }
    IN  IF starts = {}
        THEN << >>
        ELSE LET s == CHOOSE x \in starts : \A y \in starts : x <= y
                 e == UpperRunEnd(str, s)
                 d == DigitRunEnd(str, e)
             IN  << SubSeq(str, s, d - 1), SubSeq(str, s, e - 1), SubSeq(str, e, d - 1) >>

RECURSIVE decodeSumZeroBased(_, _, _)
\* the sum with 'A' as the digit 0: plain base 26
decodeSumZeroBased(runes, i, currBase) ==
    IF i < 1
    THEN 0
    ELSE (IndexOf(UpperSeq, runes[i]) - 1) * currBase
           + decodeSumZeroBased(runes, i - 1, currBase * 26)

RECURSIVE decodeSum(_, _, _)
\* the loop of decodeRowExpr over the reversed runes: sum += digit * currBase
decodeSum(runes, i, currBase) ==
    IF i < 1
    THEN 0
    ELSE IndexOf(UpperSeq, runes[i]) * currBase + decodeSum(runes, i - 1, currBase * 26)

\* decodeRowExpr: bijective base 26, minus one
decodeRowExpr(str) ==
    IF \E i \in 1..Len(str) : ~IsUpper(str[i])
    THEN [ok |-> FALSE, val |-> 0]
    ELSE [ok |-> TRUE, val |-> decodeSum(str, Len(str), 1) - 1]

RECURSIVE DecimalValue(_, _)
\* the value of the first n characters of a digit string
DecimalValue(str, n) ==
    IF n = 0 THEN 0 ELSE 10 * DecimalValue(str, n - 1) + (IndexOf(DigitSeq, str[n]) - 1)

\* strconv.Atoi on a token the tokenizer can produce (no sign, no space): an
\* error unless the string is a non-empty digit run. (Its range error needs a
\* digit run of 19 characters or more; the inputs here are far shorter.)
Atoi(str) ==
    IF Len(str) = 0 \/ \E i \in 1..Len(str) : ~IsDigit(str[i])
    THEN [ok |-> FALSE, val |-> 0]
    ELSE [ok |-> TRUE, val |-> DecimalValue(str, Len(str))]

NoCellID ==
    [row |-> -1, column |-> -1]

\* ParseCellID: letters -> row, digits - 1 -> column
ParseCellID(str) ==
    LET groups == cellRegexpFind(str)
    IN  IF Len(groups) # 3
        THEN [ok |-> FALSE, id |-> NoCellID]
        ELSE LET rowIdx == decodeRowExpr(groups[2])
                 colIdx == Atoi(groups[3])
             IN  IF ~rowIdx.ok \/ ~colIdx.ok
                 THEN [ok |-> FALSE, id |-> NoCellID]
                 ELSE [ok |-> TRUE, id |-> [row |-> rowIdx.val, column |-> colIdx.val - 1]]

(***************************************************************************)
(* Tokens and the tokenizer                                                *)
(***************************************************************************)
TokenAdd == << "+" >>
TokenSub == << "-" >>
TokenMul == << "*" >>
TokenDiv == << "/" >>
TokenRPar == << ")" >>
TokenLPar == << "(" >>

\* the keys of runeMap; each maps to the one-character token
runeMap ==
    { "+", "-", "*", "/", "(", ")" }

\* no space skipped
SkipNoSpaces(str, i) ==
    i

RECURSIVE SkipSpaces(_, _)
\* for runes[i] == ' ' { i++ }: the loop has no bound check, so it runs
\* past the end of the input when only spaces remain (Len+1: index out of range)
SkipSpaces(str, i) ==
    IF i > Len(str) THEN i
    ELSE IF str[i] = " " THEN SkipSpaces(str, i + 1) ELSE i

RECURSIVE tokenizeFrom(_, _, _)
\* the body of tokenize's for loop, i being the (1-based) loop index
tokenizeFrom(str, i, tokens) ==
    IF i > Len(str)
    THEN [err |-> "nil", tokens |-> tokens]
    ELSE LET j == SkipSpaces(str, i)
         IN  IF j > Len(str)
             THEN [err |-> "panic", tokens |-> << >>]
             ELSE IF IsDigit(str[j])
             THEN tokenizeFrom(str, DigitRunEnd(str, j),
                               Append(tokens, SubSeq(str, j, DigitRunEnd(str, j) - 1)))
             ELSE IF IsUpper(str[j])
             THEN tokenizeFrom(str, AlnumRunEnd(str, j),
                               Append(tokens, SubSeq(str, j, AlnumRunEnd(str, j) - 1)))
             ELSE IF str[j] \in runeMap
             THEN tokenizeFrom(str, j + 1, Append(tokens, << str[j] >>))
             ELSE [err |-> "ErrExprParse", tokens |-> << >>]

\* tokenize: runes[0] is read before any length check
tokenize(str) ==
    IF Len(str) = 0
    THEN [err |-> "panic", tokens |-> << >>]
    ELSE IF str[1] # "="
         THEN [err |-> "ErrExprParse", tokens |-> << >>]
         ELSE tokenizeFrom(str, 2, << >>)

(***************************************************************************)
(* Expression trees and the recursive-descent parser                       *)
(***************************************************************************)
NoExpr ==
    [kind |-> "nil"]

ConstExpr(v) ==
    [kind |-> "const", Value |-> v]

CellRefExpr(id) ==
    [kind |-> "cellref", Ref |-> id]

UnaryExpr(x, op) ==
    [kind |-> "unary", X |-> x, Op |-> op]

BinaryExpr(x, op, y) ==
    [kind |-> "binary", X |-> x, Op |-> op, Y |-> y]

Tail1(tokens) ==
    SubSeq(tokens, 2, Len(tokens))

ParseFail(kind) ==
    [err |-> kind, expr |-> NoExpr, rest |-> << >>]

ParseOk(e, rest) ==
    [err |-> "nil", expr |-> e, rest |-> rest]

termTokens ==
    { TokenAdd, TokenSub }

factorTokens ==
    { TokenMul, TokenDiv }

RECURSIVE parseRule(_, _, _, _)

\* every operator accepted at either level
validOpsOfAnyLevel(level) ==
    termTokens \cup factorTokens

validOps(level) ==
    IF level = "term" THEN termTokens ELSE factorTokens

\* next(tokens) of parseBinExpr: parseFactor for parseTerm, parseUnary for
\* parseFactor
parseNext(level, tokens) ==
    IF level = "term"
    THEN parseRule("parseBinExpr", "factor", NoExpr, tokens)
    ELSE parseRule("parseUnary", "", NoExpr, tokens)

\* the fold to the right: the right child is what the rest of the run parses to
foldOperandToTheRight(level, expr, token, y) ==
    IF y.err # "nil"
    THEN ParseFail(y.err)
    ELSE IF Len(y.rest) = 0
         THEN ParseOk(BinaryExpr(expr, token, y.expr), << >>)
         ELSE LET r == parseRule("for", level, y.expr, y.rest)
              IN  IF r.err # "nil"
                  THEN ParseFail(r.err)
                  ELSE ParseOk(BinaryExpr(expr, token, r.expr), r.rest)

\* the body of the for loop of parseBinExpr once the operand y after the
\* operator token is parsed: folds it into a BinaryExpr whose left child is the
\* tree so far, and loops while tokens are left
foldOperand(level, expr, token, y) ==
    IF y.err # "nil"
    THEN ParseFail(y.err)
    ELSE IF Len(y.rest) = 0
         THEN ParseOk(BinaryExpr(expr, token, y.expr), << >>)
         ELSE parseRule("for", level, BinaryExpr(expr, token, y.expr), y.rest)

\* parseBinExpr once its left operand lhs is parsed
afterLHS(level, lhs) ==
    IF lhs.err # "nil"
    THEN ParseFail(lhs.err)
    ELSE IF Len(lhs.rest) = 0
         THEN ParseOk(lhs.expr, << >>)
         ELSE parseRule("for", level, lhs.expr, lhs.rest)

\* the operand returned as it is, the '-' dropped
negateNothing(x) ==
    IF x.err # "nil"
    THEN ParseFail(x.err)
    ELSE ParseOk(x.expr, x.rest)

\* parseUnary once the operand x of '-' is parsed
negate(x) ==
    IF x.err # "nil"
    THEN ParseFail(x.err)
    ELSE IF x.expr.kind = "const"
         THEN ParseOk(ConstExpr(0 - x.expr.Value), x.rest)
         ELSE ParseOk(UnaryExpr(x.expr, TokenSub), x.rest)

\* parsePrimary once the expression e after '(' is parsed; "expected ')'" is
\* a plain error that does not wrap ErrExprParse
closeParen(e) ==
    IF e.err # "nil"
    THEN ParseFail(e.err)
    ELSE IF Len(e.rest) = 0 \/ e.rest[1] # TokenRPar
         THEN ParseFail("errExpectedRPar")
         ELSE ParseOk(e.expr, Tail1(e.rest))

\* the parsing functions, which call one another, as the rules of one
\* recursive operator: "parseBinExpr" at the level "term" (parseTerm) or
\* "factor" (parseFactor), "for" (the for loop of parseBinExpr, entered with
\* the tree expr so far and a non-empty rest), "parseUnary" and "parsePrimary"
parseRule(rule, level, expr, tokens) ==
    IF rule = "parseBinExpr"
    THEN afterLHS(level, parseNext(level, tokens))
    ELSE IF rule = "for"
    THEN IF tokens[1] \notin validOps(level)
         THEN ParseOk(expr, tokens)
         ELSE foldOperand(level, expr, tokens[1], parseNext(level, Tail1(tokens)))
    ELSE IF rule = "parseUnary"
    THEN IF Len(tokens) = 0
         THEN ParseFail("ErrExprParse")
         ELSE IF tokens[1] = TokenSub
              THEN negate(parseRule("parseUnary", "", NoExpr, Tail1(tokens)))
              ELSE parseRule("parsePrimary", "", NoExpr, tokens)
    ELSE IF Len(tokens) = 0
    THEN ParseFail("ErrExprParse")
    ELSE IF ParseCellID(tokens[1]).ok
    THEN ParseOk(CellRefExpr(ParseCellID(tokens[1]).id), Tail1(tokens))
    ELSE IF Atoi(tokens[1]).ok
    THEN ParseOk(ConstExpr(Atoi(tokens[1]).val), Tail1(tokens))
    ELSE IF tokens[1] = TokenLPar
    THEN closeParen(parseRule("parseBinExpr", "term", NoExpr, Tail1(tokens)))
    ELSE ParseFail("ErrExprParse")

parseBinExpr(level, tokens) ==
    parseRule("parseBinExpr", level, NoExpr, tokens)

\* addition and subtraction
parseTerm(tokens) ==
    parseBinExpr("term", tokens)

\* multiplication and division
parseFactor(tokens) ==
    parseBinExpr("factor", tokens)

parseUnary(tokens) ==
    parseRule("parseUnary", "", NoExpr, tokens)

parsePrimary(tokens) ==
    parseRule("parsePrimary", "", NoExpr, tokens)

parseExpr(tokens) ==
    parseTerm(tokens)

\* ParseExpr without its test for tokens left over
ParseExprIgnoringRest(str) ==
    LET t == tokenize(str)
    IN  IF t.err # "nil"
        THEN [err |-> t.err, expr |-> NoExpr]
        ELSE LET p == parseExpr(t.tokens)
             IN  IF p.err # "nil"
                 THEN [err |-> p.err, expr |-> NoExpr]
                 ELSE [err |-> "nil", expr |-> p.expr]

\* ParseExpr: "unexpected end of expression" is a plain error too
ParseExpr(str) ==
    LET t == tokenize(str)
    IN  IF t.err # "nil"
        THEN [err |-> t.err, expr |-> NoExpr]
        ELSE LET p == parseExpr(t.tokens)
             IN  IF p.err # "nil"
                 THEN [err |-> p.err, expr |-> NoExpr]
                 ELSE IF Len(p.rest) # 0
                      THEN [err |-> "errTrailing", expr |-> NoExpr]
                      ELSE [err |-> "nil", expr |-> p.expr]

RECURSIVE CellRefs(_)
\* CellRefs: the references of a tree, in order, duplicates kept. The type
\* switch has no case for UnaryExpr: such a node yields nil.
CellRefs(e) ==
    IF e.kind = "binary"
    THEN LET r == CellRefs(e.Y)
         IN  IF Len(r) = 0 THEN CellRefs(e.X) ELSE CellRefs(e.X) \o r
    ELSE IF e.kind = "cellref"
         THEN << e.Ref >>
         ELSE << >>

(***************************************************************************)
(* Bounds and inputs                                                       *)
(***************************************************************************)
\* literal integers passed to SetCellValue are 0..MaxLit
MaxLit ==
    1

\* the number of SetCellValue calls of a run
MaxOps ==
    3

IntVals ==
    0..MaxLit

\* the address strings passed to the two public operations: "A1", "A2", "B1"
\* and the malformed "1A"
Addresses ==
    { << "A", "1" >>, << "A", "2" >>, << "B", "1" >>, << "1", "A" >> }

\* the formula strings passed to SetCellValue:
\* "=A1" "=A2" "=B1" "=A1+A2" "=-A1" (well formed),
\* "A1" (a parse error), "" (no first rune to read)
Formulas ==
    { << "=", "A", "1" >>, << "=", "A", "2" >>, << "=", "B", "1" >>,
      << "=", "A", "1", "+", "A", "2" >>,
      << "=", "-", "A", "1" >>,
      << "A", "1" >>,
      << >> }

\* the dynamic type of the val argument (val any)
IntVal(n) ==
    [type |-> "int", n |-> n, s |-> << >>]

StringVal(str) ==
    [type |-> "string", n |-> 0, s |-> str]

OtherVal ==
    [type |-> "other", n |-> 0, s |-> << >>]

Values ==
    { IntVal(n) : n \in IntVals } \cup { StringVal(f) : f \in Formulas } \cup { OtherVal }

\* the inputs of the division specification: the addresses "A1", "A2" and
\* "B1", the integers -7, 0 and 2, and the formulas "=A1/A2", "=A2/A1" and
\* "=7/A2"
DivAddresses ==
    { << "A", "1" >>, << "A", "2" >>, << "B", "1" >> }

DivInts ==
    { -7, 0, 2 }

DivFormulas ==
    { << "=", "A", "1", "/", "A", "2" >>,
      << "=", "A", "2", "/", "A", "1" >>,
      << "=", "7", "/", "A", "2" >> }

DivValues ==
    { IntVal(n) : n \in DivInts } \cup { StringVal(f) : f \in DivFormulas }

\* the formulas of the specification with a constant formula: "=2", "=-A1"
\* and "=A1+A2"
ConstFormulas ==
    { << "=", "2" >>,
      << "=", "-", "A", "1" >>,
      << "=", "A", "1", "+", "A", "2" >> }

ConstValues ==
    { IntVal(1) } \cup { StringVal(f) : f \in ConstFormulas }

(***************************************************************************)
(* The Spreadsheet                                                         *)
(***************************************************************************)
VARIABLES
    cells,          \* map[CellID]*Cell: a function whose domain is the stored cells
    refersTo,       \* map[CellID]map[CellID]struct{}
    referredFrom,   \* map[CellID]map[CellID]struct{}
    ret,            \* the last public call and what it returned
    written,        \* the CellIDs that a SetCellValue was called on so far
    nops,           \* the number of SetCellValue calls so far
    run,            \* the locals of the SetCellValue call in progress (SpecSteps)
    arg,            \* the argument of the last call of ParseExpr or ParseCellID
    out             \* what that call returned

vars ==
    << cells, refersTo, referredFrom, ret, written, nops, run, arg, out >>

\* Cell{currValue, expr}
Cell(v, e) ==
    [currValue |-> v, expr |-> e]

\* m[k] of a map of sets, a missing key reading as the nil (empty) set
Get(m, k) ==
    IF k \in DOMAIN m THEN m[k] ELSE {}

\* m[k] = v, inserting the key when missing
Put(m, k, v) ==
    [x \in DOMAIN m \cup {k} |-> IF x = k THEN v ELSE m[x]]

Abs(x) ==
    IF x < 0 THEN 0 - x ELSE x

\* a quotient rounded down instead of toward zero
FloorDiv(x, y) ==
    IF y > 0 THEN x \div y ELSE (0 - x) \div (0 - y)

\* Go's x / y for y # 0: the quotient truncated toward zero
GoDiv(x, y) ==
    IF (x < 0) = (y < 0)
    THEN Abs(x) \div Abs(y)
    ELSE 0 - (Abs(x) \div Abs(y))

RECURSIVE evalExpr(_, _)
\* evalExpr: cell references read the cached value, 0 for a missing cell
evalExpr(cs, expr) ==
    IF expr.kind = "unary"
    THEN IF expr.Op = TokenSub THEN 0 - evalExpr(cs, expr.X) ELSE 0
    ELSE IF expr.kind = "binary"
    THEN LET x == evalExpr(cs, expr.X)
             y == evalExpr(cs, expr.Y)
         IN  IF expr.Op = TokenAdd THEN x + y
             ELSE IF expr.Op = TokenMul THEN x * y
             ELSE IF expr.Op = TokenSub THEN x - y
             ELSE IF expr.Op = TokenDiv THEN (IF y = 0 THEN 0 ELSE GoDiv(x, y))
             ELSE 0
    ELSE IF expr.kind = "const"
    THEN expr.Value
    ELSE IF expr.kind = "cellref"
    THEN (IF expr.Ref \in DOMAIN cs THEN cs[expr.Ref].currValue ELSE 0)
    ELSE 0

\* eval without its test for a cell that holds no expression
evalWithoutLiteralCase(cs, cid) ==
    IF cid \notin DOMAIN cs
    THEN 0
    ELSE evalExpr(cs, cs[cid].expr)

\* eval: the value of a cell
eval(cs, cid) ==
    IF cid \notin DOMAIN cs
    THEN 0
    ELSE IF cs[cid].expr = NoExpr
         THEN cs[cid].currValue
         ELSE evalExpr(cs, cs[cid].expr)

\* addCellReferral: both edges, creating either inner map when missing
addCellReferral(g, source, target) ==
    [refersTo |-> Put(g.refersTo, source, Get(g.refersTo, source) \cup {target}),
     referredFrom |-> Put(g.referredFrom, target, Get(g.referredFrom, target) \cup {source})]

RECURSIVE addCellReferrals(_, _, _)
\* for _, ref := range CellRefs(*cell.expr) { s.addCellReferral(cid, ref) }
addCellReferrals(g, cid, refs) ==
    IF Len(refs) = 0
    THEN g
    ELSE addCellReferrals(addCellReferral(g, cid, Head(refs)), cid, Tail(refs))

\* the clearing without the loop that deletes cid from referredFrom
clearReferralsOneSided(g, cid) ==
    [refersTo |-> IF cid \in DOMAIN g.refersTo
                  THEN [g.refersTo EXCEPT ![cid] = {}]
                  ELSE g.refersTo,
     referredFrom |-> g.referredFrom]

\* the first half of the graph update of refresh: every outgoing edge of cid is
\* deleted from referredFrom, and refersTo[cid] is cleared (the key stays)
clearReferrals(g, cid) ==
    [refersTo |-> IF cid \in DOMAIN g.refersTo
                  THEN [g.refersTo EXCEPT ![cid] = {}]
                  ELSE g.refersTo,
     referredFrom |-> [k \in DOMAIN g.referredFrom |->
                          IF k \in Get(g.refersTo, cid)
                          THEN g.referredFrom[k] \ {cid}
                          ELSE g.referredFrom[k]]]

\* the graph update of refresh, done only for a cell that holds an expression
updateGraph(g, cid, expr) ==
    IF expr # NoExpr
    THEN addCellReferrals(clearReferrals(g, cid), cid, CellRefs(expr))
    ELSE g

\* every order in which the elements of a set can be ranged over
RECURSIVE Orders(_)
Orders(S) ==
    IF S = {}
    THEN { << >> }
    ELSE UNION { { << x >> \o o : o \in Orders(S \ {x}) } : x \in S }

RECURSIVE rootLoop(_, _, _, _)
\* the loop of rootReferrers; a set of results, one for each order in which
\* the referrers of a cell can be ranged over
rootLoop(rf, frontier, seen, startCells) ==
    IF Len(frontier) = 0
    THEN { startCells }
    ELSE LET curr == Head(frontier)
             start2 == IF Get(rf, curr) = {} THEN Append(startCells, curr) ELSE startCells
             fresh == Get(rf, curr) \ seen
         IN  UNION { rootLoop(rf, Tail(frontier) \o o, seen \cup fresh, start2) :
                       o \in Orders(fresh) }

\* rootReferrers: the possible results
rootReferrers(rf, cid) ==
    { IF Len(r) = 0 THEN << cid >> ELSE r : r \in rootLoop(rf, << cid >>, {cid}, << >>) }

RECURSIVE visit(_, _, _), visitNeighbors(_, _, _)
\* visit without its test of the permanent mark
visitWithoutPermMark(rt, curr, st) ==
    IF curr \in st.temp
    THEN { [st EXCEPT !.err = "ErrCircRef"] }
    ELSE { IF s2.err # "nil"
           THEN s2
           ELSE [perm |-> s2.perm \cup {curr},
                 temp |-> s2.temp \ {curr},
                 result |-> Append(s2.result, curr),
                 err |-> "nil"] :
           s2 \in visitNeighbors(rt, Get(rt, curr), [st EXCEPT !.temp = @ \cup {curr}]) }

\* visit of topSort on the marks st = [perm, temp, result, err]; a set of
\* results, one for each order in which the neighbours can be ranged over
visit(rt, curr, st) ==
    IF curr \in st.perm
    THEN { st }
    ELSE IF curr \in st.temp
    THEN { [st EXCEPT !.err = "ErrCircRef"] }
    ELSE { IF s2.err # "nil"
           THEN s2
           ELSE [perm |-> s2.perm \cup {curr},
                 temp |-> s2.temp \ {curr},
                 result |-> Append(s2.result, curr),
                 err |-> "nil"] :
           s2 \in visitNeighbors(rt, Get(rt, curr), [st EXCEPT !.temp = @ \cup {curr}]) }

\* for neighbor := range s.refersTo[curr]: todo are the neighbours not yet ranged over
visitNeighbors(rt, todo, st) ==
    IF todo = {} \/ st.err # "nil"
    THEN { st }
    ELSE UNION { UNION { visitNeighbors(rt, todo \ {n}, s2) : s2 \in visit(rt, n, st) } :
                   n \in todo }

RECURSIVE visitStart(_, _, _)
\* for _, node := range startNodes
visitStart(rt, startNodes, st) ==
    IF Len(startNodes) = 0 \/ st.err # "nil"
    THEN { st }
    ELSE UNION { visitStart(rt, Tail(startNodes), s2) : s2 \in visit(rt, Head(startNodes), st) }

\* topSort: the possible results [err, order]
topSort(rt, startNodes) ==
    { [err |-> st.err, order |-> IF st.err = "nil" THEN st.result ELSE << >>] :
        st \in visitStart(rt, startNodes,
                          [perm |-> {}, temp |-> {}, result |-> << >>, err |-> "nil"]) }

RECURSIVE evalOrder(_, _)
\* the re-evaluation loop of refresh
evalOrder(cs, order) ==
    IF Len(order) = 0
    THEN cs
    ELSE LET cid == Head(order)
         IN  IF cid \in DOMAIN cs
             THEN evalOrder([cs EXCEPT ![cid].currValue = eval(cs, cid)], Tail(order))
             ELSE evalOrder(cs, Tail(order))

\* refresh re-evaluating the start cells before it sorts
refreshEvaluatingRoots(cs, g, cid) ==
    IF cid \notin DOMAIN cs
    THEN { [err |-> "nil", cells |-> cs, refersTo |-> g.refersTo,
            referredFrom |-> g.referredFrom, order |-> << >>] }
    ELSE LET g2 == updateGraph(g, cid, cs[cid].expr)
         IN  UNION { { [err |-> t.err,
                        cells |-> evalOrder(evalOrder(cs, roots), t.order),
                        refersTo |-> g2.refersTo,
                        referredFrom |-> g2.referredFrom,
                        order |-> t.order] : t \in topSort(g2.refersTo, roots) } :
                     roots \in rootReferrers(g2.referredFrom, cid) }

\* refresh: the possible outcomes [err, cells, refersTo, referredFrom, order]
refresh(cs, g, cid) ==
    IF cid \notin DOMAIN cs
    THEN { [err |-> "nil", cells |-> cs, refersTo |-> g.refersTo,
            referredFrom |-> g.referredFrom, order |-> << >>] }
    ELSE LET g2 == updateGraph(g, cid, cs[cid].expr)
         IN  { [err |-> t.err,
                cells |-> IF t.err = "nil" THEN evalOrder(cs, t.order) ELSE cs,
                refersTo |-> g2.refersTo,
                referredFrom |-> g2.referredFrom,
                order |-> t.order] :
               t \in UNION { topSort(g2.refersTo, roots) :
                               roots \in rootReferrers(g2.referredFrom, cid) } }

\* if _, ok := s.cells[cid]; !ok { s.cells[cid] = &Cell{} }
ensureCell(cs, cid) ==
    IF cid \in DOMAIN cs THEN cs ELSE Put(cs, cid, Cell(0, NoExpr))

\* the parse result of every formula string of the model
parsed ==
    [f \in Formulas \cup DivFormulas \cup ConstFormulas |-> ParseExpr(f)]

Graph ==
    [refersTo |-> refersTo, referredFrom |-> referredFrom]

\* the call, its arguments (the text of val once the address is decoded) and
\* what it returned
Result(op, id, val, err, v) ==
    [op |-> op, cid |-> id, arg |-> val.type, n |-> val.n,
     s |-> IF id = NoCellID THEN << >> ELSE val.s, err |-> err, val |-> v]

\* SetCellValue's outcomes once the address is decoded to cid:
\* [err, cells, refersTo, referredFrom]
setCell(cs, g, cid, val) ==
    LET cs1 == ensureCell(cs, cid)
        keep(err) == { [err |-> err, cells |-> cs1, refersTo |-> g.refersTo,
                        referredFrom |-> g.referredFrom] }
        strip(outs) == { [err |-> o.err, cells |-> o.cells, refersTo |-> o.refersTo,
                          referredFrom |-> o.referredFrom] : o \in outs }
    IN  IF val.type = "int"
        THEN strip(refresh([cs1 EXCEPT ![cid] = Cell(val.n, NoExpr)], g, cid))
        ELSE IF val.type = "string"
        THEN IF parsed[val.s].err # "nil"
             THEN keep(parsed[val.s].err)
             ELSE strip(refresh([cs1 EXCEPT ![cid] = Cell(0, parsed[val.s].expr)], g, cid))
        ELSE keep("ErrValueType")

\* a panic (an index out of range in tokenize) ends the process
Running ==
    ret.err # "panic"

\* no call is in progress
Idle ==
    [pc |-> "idle", cid |-> NoCellID, frontier |-> << >>, seen |-> {},
     startCells |-> << >>, stack |-> << >>, perm |-> {}, temp |-> {}, result |-> << >>]

Init ==
    /\ cells = << >>
    /\ refersTo = << >>
    /\ referredFrom = << >>
    /\ ret = Result("none", NoCellID, OtherVal, "nil", 0)
    /\ written = {}
    /\ nops = 0
    /\ run = Idle
    /\ arg = << >>
    /\ out = << >>

SetCellValue(cellID, val) ==
    /\ Running
    /\ nops < MaxOps
    /\ nops' = nops + 1
    /\ UNCHANGED << run, arg, out >>
    /\ LET p == ParseCellID(cellID)
       IN  IF ~p.ok
           THEN /\ ret' = Result("SetCellValue", NoCellID, val, "ErrParseCellID", 0)
                /\ UNCHANGED << cells, refersTo, referredFrom, written >>
           ELSE \E o \in setCell(cells, Graph, p.id, val) :
                    /\ cells' = o.cells
                    /\ refersTo' = o.refersTo
                    /\ referredFrom' = o.referredFrom
                    /\ ret' = Result("SetCellValue", p.id, val, o.err, 0)
                    /\ written' = written \cup {p.id}

\* GetCellValue without its test for a missing cell: a nil *Cell is read
getCellUnchecked(cs, cid) ==
    IF cid \notin DOMAIN cs
    THEN [val |-> 0, err |-> "panic"]
    ELSE [val |-> cs[cid].currValue, err |-> "nil"]

\* the (value, error) GetCellValue returns for a decoded address
getCell(cs, cid) ==
    IF cid \notin DOMAIN cs
    THEN [val |-> 0, err |-> "nil"]
    ELSE [val |-> cs[cid].currValue, err |-> "nil"]

\* GetCellValue creating the cell it reads, as SetCellValue does
GetCellValueCreating(cellID) ==
    /\ Running
    /\ LET p == ParseCellID(cellID)
       IN  IF ~p.ok
           THEN /\ ret' = Result("GetCellValue", NoCellID, OtherVal, "ErrParseCellID", 0)
                /\ UNCHANGED cells
           ELSE /\ ret' = Result("GetCellValue", p.id, OtherVal,
                                 getCell(cells, p.id).err, getCell(cells, p.id).val)
                /\ cells' = ensureCell(cells, p.id)
    /\ UNCHANGED << refersTo, referredFrom, written, nops, run, arg, out >>

GetCellValue(cellID) ==
    /\ Running
    /\ LET p == ParseCellID(cellID)
       IN  IF ~p.ok
           THEN ret' = Result("GetCellValue", NoCellID, OtherVal, "ErrParseCellID", 0)
           ELSE ret' = Result("GetCellValue", p.id, OtherVal,
                              getCell(cells, p.id).err, getCell(cells, p.id).val)
    /\ UNCHANGED << cells, refersTo, referredFrom, written, nops, run, arg, out >>

Next ==
    \/ \E a \in Addresses, v \in Values : SetCellValue(a, v)
    \/ \E a \in Addresses : GetCellValue(a)

Spec ==
    Init /\ [][Next]_vars


\* the two public operations on cells that hold integers and divisions
NextDiv ==
    \/ \E a \in DivAddresses, v \in DivValues : SetCellValue(a, v)
    \/ \E a \in DivAddresses : GetCellValue(a)

SpecDiv ==
    Init /\ [][NextDiv]_vars

\* the two public operations on cells that hold integers, a constant formula,
\* a negation and a sum
NextConst ==
    \/ \E a \in DivAddresses, v \in ConstValues : SetCellValue(a, v)
    \/ \E a \in DivAddresses : GetCellValue(a)

SpecConst ==
    Init /\ [][NextConst]_vars

(***************************************************************************)
(* SetCellValue step by step: one action for each iteration of the loop of *)
(* rootReferrers, for each call, iteration and return of topSort's visit   *)
(* (the recursion kept as an explicit stack of [node, todo] frames), and   *)
(* for each iteration of the re-evaluation loop of refresh.                *)
(***************************************************************************)
\* the values passed to SetCellValue in the step-by-step specification
StepValues ==
    { IntVal(1) } \cup { StringVal(f) : f \in { g \in Formulas : parsed[g].err # "panic" } }

\* SetCellValue up to the call of rootReferrers in refresh
Call(cellID, val) ==
    /\ run.pc = "idle"
    /\ nops < MaxOps
    /\ nops' = nops + 1
    /\ UNCHANGED << arg, out >>
    /\ LET p == ParseCellID(cellID)
           cs1 == ensureCell(cells, p.id)
           cs2 == IF val.type = "int"
                  THEN [cs1 EXCEPT ![p.id] = Cell(val.n, NoExpr)]
                  ELSE [cs1 EXCEPT ![p.id] = Cell(0, parsed[val.s].expr)]
           g2 == updateGraph(Graph, p.id, cs2[p.id].expr)
       IN  IF ~p.ok
           THEN /\ ret' = Result("SetCellValue", NoCellID, val, "ErrParseCellID", 0)
                /\ UNCHANGED << cells, refersTo, referredFrom, written, run >>
           ELSE IF val.type = "string" /\ parsed[val.s].err # "nil"
           THEN /\ ret' = Result("SetCellValue", p.id, val, parsed[val.s].err, 0)
                /\ cells' = cs1
                /\ written' = written \cup {p.id}
                /\ UNCHANGED << refersTo, referredFrom, run >>
           ELSE /\ ret' = Result("SetCellValue", p.id, val, "running", 0)
                /\ cells' = cs2
                /\ refersTo' = g2.refersTo
                /\ referredFrom' = g2.referredFrom
                /\ written' = written \cup {p.id}
                /\ run' = [Idle EXCEPT !.pc = "rootReferrers", !.cid = p.id,
                                       !.frontier = << p.id >>, !.seen = {p.id}]

\* the referrers of curr that one iteration of rootReferrers adds to the frontier
freshReferrersAnySeen(curr) ==
    Get(referredFrom, curr)

freshReferrers(curr) ==
    Get(referredFrom, curr) \ run.seen

\* one iteration of for len(frontier) > 0, or the return of rootReferrers
RootStep ==
    /\ run.pc = "rootReferrers"
    /\ IF Len(run.frontier) = 0
       THEN run' = [run EXCEPT !.pc = "topSort",
                               !.startCells = IF Len(run.startCells) = 0
                                              THEN << run.cid >>
                                              ELSE run.startCells]
       ELSE LET curr == Head(run.frontier)
            IN  \E o \in Orders(freshReferrers(curr)) :
                    run' = [run EXCEPT !.frontier = Tail(run.frontier) \o o,
                                       !.seen = @ \cup Range(o),
                                       !.startCells = IF Get(referredFrom, curr) = {}
                                                      THEN Append(@, curr)
                                                      ELSE @]
    /\ UNCHANGED << cells, refersTo, referredFrom, ret, written, nops, arg, out >>

\* the call visit(n) made with the locals r: a node marked perm returns at
\* once, a node marked temp returns ErrCircRef, which every caller passes up
\* so that SetCellValue returns it; another node is marked temp and entered
Visit(r, n) ==
    IF n \in r.perm
    THEN run' = r /\ UNCHANGED ret
    ELSE IF n \in r.temp
    THEN run' = Idle /\ ret' = [ret EXCEPT !.err = "ErrCircRef"]
    ELSE /\ run' = [r EXCEPT !.temp = @ \cup {n},
                             !.stack = Append(@, [node |-> n, todo |-> Get(refersTo, n)])]
         /\ UNCHANGED ret

\* one step of topSort
SortStep ==
    /\ run.pc = "topSort"
    /\ IF Len(run.stack) = 0
       THEN IF Len(run.startCells) = 0
            THEN run' = [run EXCEPT !.pc = "eval"] /\ UNCHANGED ret
            ELSE Visit([run EXCEPT !.startCells = Tail(@)], Head(run.startCells))
       ELSE LET top == run.stack[Len(run.stack)]
                rest == SubSeq(run.stack, 1, Len(run.stack) - 1)
            IN  IF top.todo = {}
                THEN /\ run' = [run EXCEPT !.stack = rest,
                                           !.temp = @ \ {top.node},
                                           !.perm = @ \cup {top.node},
                                           !.result = Append(@, top.node)]
                     /\ UNCHANGED ret
                ELSE \E n \in top.todo :
                         Visit([run EXCEPT !.stack = Append(rest, [top EXCEPT !.todo = @ \ {n}])], n)
    /\ UNCHANGED << cells, refersTo, referredFrom, written, nops, arg, out >>

\* one iteration of the re-evaluation loop, or the return of refresh
EvalStep ==
    /\ run.pc = "eval"
    /\ IF Len(run.result) = 0
       THEN /\ run' = Idle
            /\ ret' = [ret EXCEPT !.err = "nil"]
            /\ UNCHANGED cells
       ELSE /\ run' = [run EXCEPT !.result = Tail(@)]
            /\ cells' = evalOrder(cells, << Head(run.result) >>)
            /\ UNCHANGED ret
    /\ UNCHANGED << refersTo, referredFrom, written, nops, arg, out >>

NextSteps ==
    \/ \E a \in Addresses, v \in StepValues : Call(a, v)
    \/ RootStep
    \/ SortStep
    \/ EvalStep

\* the engine is single-threaded and synchronous: a call that has started
\* keeps running (nothing suspends, yields or is cancelled)
SpecSteps ==
    /\ Init
    /\ [][NextSteps]_vars
    /\ WF_vars(RootStep)
    /\ WF_vars(SortStep)
    /\ WF_vars(EvalStep)

(***************************************************************************)
(* ParseExpr on its own: a formula text is typed token by token after an   *)
(* optional leading '=', spaces are then inserted in front of its tokens,  *)
(* and ParseExpr is applied to every text so made.                         *)
(***************************************************************************)
\* the number of tokens typed after the leading '='
MaxToks ==
    5

\* the number of tokens typed in a text that has no leading '='
MaxBare ==
    1

\* spaces are inserted in texts of at most MaxSpaced typed tokens
MaxSpaced ==
    3

\* the number of spaces inserted in one text
MaxSpaces ==
    2

\* what is typed at once: "A1", "2" and the six one-character tokens
ExprTokens ==
    { << "A", "1" >>, << "2" >>,
      TokenAdd, TokenSub, TokenMul, TokenDiv, TokenLPar, TokenRPar }

RECURSIVE Concat(_)
\* the strings of a sequence, one after the other
Concat(strs) ==
    IF Len(strs) = 0 THEN << >> ELSE Head(strs) \o Concat(Tail(strs))

\* the tokens of the text typed so far (typed neighbours such as "A1" and "2"
\* read as the one token "A12")
BaseTokens(toks) ==
    tokenize(<< "=" >> \o Concat(toks)).tokens

\* the text: the leading '=' when there is one, then each token behind the
\* spaces inserted in front of it
Text(a) ==
    LET T == BaseTokens(a.toks)
    IN  (IF a.lead THEN << "=" >> ELSE << >>)
          \o Concat([i \in 1..Len(T) |-> [j \in 1..a.gaps[i] |-> " "] \o T[i]])

RECURSIVE Sum(_)
Sum(ns) ==
    IF Len(ns) = 0 THEN 0 ELSE Head(ns) + Sum(Tail(ns))

InitParse ==
    /\ cells = << >>
    /\ refersTo = << >>
    /\ referredFrom = << >>
    /\ ret = Result("none", NoCellID, OtherVal, "nil", 0)
    /\ written = {}
    /\ nops = 0
    /\ run = Idle
    /\ arg \in { [lead |-> b, toks |-> << >>, gaps |-> << >>] : b \in BOOLEAN }
    /\ out = ParseExpr(Text(arg))

\* one more token is typed at the end of a text that holds no space yet, and
\* the text is parsed
Type(tok) ==
    /\ Len(arg.toks) < (IF arg.lead THEN MaxToks ELSE MaxBare)
    /\ Sum(arg.gaps) = 0
    /\ arg' = [lead |-> arg.lead,
               toks |-> Append(arg.toks, tok),
               gaps |-> [i \in 1..Len(BaseTokens(Append(arg.toks, tok))) |-> 0]]
    /\ out' = ParseExpr(Text(arg'))
    /\ UNCHANGED << cells, refersTo, referredFrom, ret, written, nops, run >>

\* one more space is inserted in front of the i-th token, and the text is parsed
Space(i) ==
    /\ arg.lead
    /\ Len(arg.toks) <= MaxSpaced
    /\ i \in 1..Len(arg.gaps)
    /\ Sum(arg.gaps) < MaxSpaces
    /\ arg' = [arg EXCEPT !.gaps[i] = @ + 1]
    /\ out' = ParseExpr(Text(arg'))
    /\ UNCHANGED << cells, refersTo, referredFrom, ret, written, nops, run >>

NextParse ==
    \/ \E tok \in ExprTokens : Type(tok)
    \/ \E i \in 1..MaxSpaced : Space(i)

SpecParse ==
    InitParse /\ [][NextParse]_vars

(***************************************************************************)
(* tokenize on its own: a text is typed character by character, spaces     *)
(* included, and tokenize is applied to every text so made.                *)
(***************************************************************************)
\* the number of characters of a text
MaxText ==
    4

\* the characters typed: the marker, a space, a digit, a letter, an operator
\* and a character that no token holds
TextChars ==
    { "=", " ", "2", "A", "+", "x" }

InitTokenize ==
    /\ cells = << >>
    /\ refersTo = << >>
    /\ referredFrom = << >>
    /\ ret = Result("none", NoCellID, OtherVal, "nil", 0)
    /\ written = {}
    /\ nops = 0
    /\ run = Idle
    /\ arg = << >>
    /\ out = tokenize(arg)

\* one more character is typed, and the text is tokenized
TypeText(ch) ==
    /\ Len(arg) < MaxText
    /\ arg' = Append(arg, ch)
    /\ out' = tokenize(arg')
    /\ UNCHANGED << cells, refersTo, referredFrom, ret, written, nops, run >>

NextTokenize ==
    \E ch \in TextChars : TypeText(ch)

SpecTokenize ==
    InitTokenize /\ [][NextTokenize]_vars

(***************************************************************************)
(* ParseCellID on its own: an address is typed character by character and  *)
(* ParseCellID is applied to every string so made.                         *)
(***************************************************************************)
\* the number of characters of an address
MaxAddr ==
    4

\* the characters typed: letters, digits, and a lowercase letter
AddrChars ==
    { "A", "B", "C", "Z", "0", "1", "2", "3", "a" }

InitCodec ==
    /\ cells = << >>
    /\ refersTo = << >>
    /\ referredFrom = << >>
    /\ ret = Result("none", NoCellID, OtherVal, "nil", 0)
    /\ written = {}
    /\ nops = 0
    /\ run = Idle
    /\ arg = << >>
    /\ out = ParseCellID(arg)

\* one more character is typed, and the string is decoded
TypeChar(ch) ==
    /\ Len(arg) < MaxAddr
    /\ arg' = Append(arg, ch)
    /\ out' = ParseCellID(arg')
    /\ UNCHANGED << cells, refersTo, referredFrom, ret, written, nops, run >>

NextCodec ==
    \E ch \in AddrChars : TypeChar(ch)

SpecCodec ==
    InitCodec /\ [][NextCodec]_vars

(***************************************************************************)
(* topSort on its own: the graph is any set of edges between three cells   *)
(* (SetCellValue installs the edges of a formula whether or not it then    *)
(* rejects it, so every such graph can be built), the start nodes are what *)
(* rootReferrers returns for a cell, and topSort is applied to them.       *)
(***************************************************************************)
\* the CellIDs of the graph: A1, A2, B1
SortCells ==
    { ParseCellID(a).id : a \in DivAddresses }

\* referredFrom as addCellReferral keeps it: the edges of rt, reversed
Inverse(rt) ==
    [t \in SortCells |-> { c \in SortCells : t \in rt[c] }]

\* topSort not called yet
NotSorted ==
    [startNodes |-> << >>, err |-> "none", order |-> << >>]

InitSort ==
    /\ cells = << >>
    /\ refersTo \in [SortCells -> SUBSET SortCells]
    /\ referredFrom = Inverse(refersTo)
    /\ ret = Result("none", NoCellID, OtherVal, "nil", 0)
    /\ written = {}
    /\ nops = 0
    /\ run = Idle
    /\ arg = NoCellID
    /\ out = NotSorted

\* roots := s.rootReferrers(cid); order, err := s.topSort(roots)
Sort(cid) ==
    /\ \E roots \in rootReferrers(referredFrom, cid) :
         \E t \in topSort(refersTo, roots) :
             out' = [startNodes |-> roots, err |-> t.err, order |-> t.order]
    /\ arg' = cid
    /\ UNCHANGED << cells, refersTo, referredFrom, ret, written, nops, run >>

NextSort ==
    \E cid \in SortCells : Sort(cid)

SpecSort ==
    InitSort /\ [][NextSort]_vars

(***************************************************************************)
(* Definitions used to state the properties                                *)
(***************************************************************************)
RECURSIVE AllRefs(_)
\* every CellID that appears as a cell reference anywhere in a tree
AllRefs(e) ==
    IF e.kind = "cellref" THEN { e.Ref }
    ELSE IF e.kind = "unary" THEN AllRefs(e.X)
    ELSE IF e.kind = "binary" THEN AllRefs(e.X) \cup AllRefs(e.Y)
    ELSE {}

\* the cells the expression currently held by cell c refers to
FormulaRefs(cs, c) ==
    IF c \in DOMAIN cs /\ cs[c].expr # NoExpr THEN AllRefs(cs[c].expr) ELSE {}

RECURSIVE FormulaClosure(_, _)
\* the cells reachable from the set S through formula references (S included)
FormulaClosure(cs, S) ==
    LET T == S \cup UNION { FormulaRefs(cs, c) : c \in S }
    IN  IF T = S THEN S ELSE FormulaClosure(cs, T)

\* the cells cell c refers to directly or through a chain of formulas
FormulaReach(cs, c) ==
    FormulaClosure(cs, FormulaRefs(cs, c))

RECURSIVE EdgeClosure(_, _)
\* the cells reachable from the set S through refersTo edges (S included)
EdgeClosure(rt, S) ==
    LET T == S \cup UNION { Get(rt, c) : c \in S }
    IN  IF T = S THEN S ELSE EdgeClosure(rt, T)

\* cell d depends on cell c: through the formulas or through the edges
DependsOn(cs, rt, d, c) ==
    \/ c \in FormulaReach(cs, d)
    \/ c \in EdgeClosure(rt, Get(rt, d))

\* no formula reachable from cell d lies on a cycle of formula references
FormulaAcyclicFrom(cs, d) ==
    \A c \in FormulaClosure(cs, {d}) : c \notin FormulaReach(cs, c)

RECURSIVE DeepEvalExpr(_, _), DeepEval(_, _)
\* the value of a tree when every reference is evaluated through the formula
\* of the cell it names (a missing cell is 0, a literal cell its value)
DeepEvalExpr(cs, e) ==
    IF e.kind = "unary" THEN 0 - DeepEvalExpr(cs, e.X)
    ELSE IF e.kind = "binary"
    THEN LET x == DeepEvalExpr(cs, e.X)
             y == DeepEvalExpr(cs, e.Y)
         IN  IF e.Op = TokenAdd THEN x + y
             ELSE IF e.Op = TokenMul THEN x * y
             ELSE IF e.Op = TokenSub THEN x - y
             ELSE IF y = 0 THEN 0 ELSE GoDiv(x, y)
    ELSE IF e.kind = "const" THEN e.Value
    ELSE IF e.kind = "cellref" THEN DeepEval(cs, e.Ref)
    ELSE 0

DeepEval(cs, c) ==
    IF c \notin DOMAIN cs THEN 0
    ELSE IF cs[c].expr = NoExpr THEN cs[c].currValue
    ELSE DeepEvalExpr(cs, cs[c].expr)

\* the last call was a SetCellValue that returned nil
SetSucceeded ==
    ret.op = "SetCellValue" /\ ret.err = "nil"

\* the errors ParseExpr returns
ParseErrors ==
    { "ErrExprParse", "errExpectedRPar", "errTrailing" }

\* every CellID that occurs in the graph
GraphCells ==
    DOMAIN refersTo \cup DOMAIN referredFrom
      \cup UNION { refersTo[k] : k \in DOMAIN refersTo }
      \cup UNION { referredFrom[k] : k \in DOMAIN referredFrom }

(***************************************************************************)
(* C1: after every SetCellValue that returns success, every stored cell    *)
(* that holds an expression has a cached value equal to the evaluation of  *)
(* that expression against the current cached values (absent cells are 0). *)
(***************************************************************************)
C1_CachedValuesConsistent ==
    SetSucceeded =>
        \A c \in DOMAIN cells :
            cells[c].expr # NoExpr => cells[c].currValue = evalExpr(cells, cells[c].expr)

(***************************************************************************)
(* C2: SetCellValue(c, formula) fails with the circular-reference error    *)
(* whenever, with the new formula installed, cell c references itself      *)
(* directly or through a chain of formula references, whatever the form of *)
(* the expression in which the reference appears.                          *)
(***************************************************************************)
C2_CycleRejected ==
    ( /\ ret.op = "SetCellValue"
      /\ ret.arg = "string"
      /\ ret.err \in { "nil", "ErrCircRef" }
      /\ ret.cid \in FormulaReach(cells, ret.cid) )
    => ret.err = "ErrCircRef"

(***************************************************************************)
(* C3: a formula may reference cells not written yet (they read as 0), and *)
(* after a successful SetCellValue on cell c every cell that references c  *)
(* directly or through a chain of formulas holds the propagated value.     *)
(***************************************************************************)
C3_Propagation ==
    SetSucceeded =>
        \A d \in DOMAIN cells :
            ( /\ ret.cid \in FormulaReach(cells, d)
              /\ FormulaAcyclicFrom(cells, d) )
            => getCell(cells, d).val = DeepEval(cells, d)

(***************************************************************************)
(* C4: a successful SetCellValue on cell c changes the cached value of no  *)
(* cell other than c and the cells that transitively depend on c.          *)
(***************************************************************************)
C4_UnrelatedCellsKept ==
    [][ (nops' = nops + 1 /\ ret'.err = "nil") =>
          \A d \in DOMAIN cells :
              (d # ret'.cid /\ ~DependsOn(cells', refersTo', d, ret'.cid))
              => cells'[d].currValue = cells[d].currValue ]_vars

(***************************************************************************)
(* C5: literal round-trip: after SetCellValue(id, n) with an integer n,    *)
(* GetCellValue(id) returns n.                                             *)
(***************************************************************************)
C5_LiteralRoundTrip ==
    (ret.op = "SetCellValue" /\ ret.arg = "int" /\ ret.cid # NoCellID)
    => getCell(cells, ret.cid) = [val |-> ret.n, err |-> "nil"]

\* an integer was written, with success, to a cell that other cells refer to,
\* and another cell holds the value 1 too
C5_Witness ==
    /\ ret.op = "SetCellValue" /\ ret.arg = "int" /\ ret.n = 1
    /\ ret.err = "nil"
    /\ Get(referredFrom, ret.cid) # {}
    /\ \E d \in DOMAIN cells : d # ret.cid /\ cells[d].currValue = 1

(***************************************************************************)
(* C6: refersTo and referredFrom are mutual inverses after every completed *)
(* SetCellValue, successful or failed: b is in referredFrom[a] if and only *)
(* if a is in refersTo[b].                                                 *)
(***************************************************************************)
C6_MutualInverse ==
    \A a \in GraphCells, b \in GraphCells :
        (b \in Get(referredFrom, a)) <=> (a \in Get(refersTo, b))

\* a formula that replaced another formula of the same cell was rejected
C6_Witness ==
    /\ ret.op = "SetCellValue" /\ ret.err = "ErrCircRef"
    /\ \E a \in GraphCells : Get(referredFrom, a) = {} /\ a \in DOMAIN referredFrom
    /\ \E a \in GraphCells : Get(refersTo, a) # {}

C8_CallTerminates ==
    [](run.pc # "idle" => <>(run.pc = "idle"))

\* the frontier search runs on a graph that holds a cycle left behind by an
\* earlier rejected formula
C8_Witness ==
    /\ run.pc = "rootReferrers"
    /\ nops > 1
    /\ \E c \in GraphCells : c \in EdgeClosure(refersTo, Get(refersTo, c))
    /\ \E c \in DOMAIN cells : c # run.cid /\ c \in EdgeClosure(refersTo, Get(refersTo, c))

(***************************************************************************)
(* C9: GetCellValue on a well-formed address that has never been the       *)
(* target of a SetCellValue returns 0 with no error, also when other cells *)
(* hold formulas that reference that address.                              *)
(***************************************************************************)
C9_UnsetCellIsZero ==
    (ret.op = "GetCellValue" /\ ret.cid # NoCellID /\ ret.cid \notin written)
    => (ret.err = "nil" /\ ret.val = 0)

\* the value of a never-written cell that a stored formula references was read
C9_Witness ==
    /\ ret.op = "GetCellValue" /\ ret.cid # NoCellID /\ ret.cid \notin written
    /\ \E c \in DOMAIN cells : ret.cid \in FormulaRefs(cells, c)
    /\ \E c \in DOMAIN cells : cells[c].currValue # 0

(***************************************************************************)
(* C10: GetCellValue changes nothing: the cell store, every cached value   *)
(* and expression and both adjacency maps are the same after the call, and *)
(* what it returns is read from the cell store alone.                      *)
(***************************************************************************)
C10_GetChangesNothing ==
    [][ ret'.op = "GetCellValue" =>
          /\ UNCHANGED << cells, refersTo, referredFrom >>
          /\ ret'.cid # NoCellID =>
                 /\ ret'.err = "nil"
                 /\ ret'.val = IF ret'.cid \in DOMAIN cells
                               THEN cells[ret'.cid].currValue
                               ELSE 0 ]_vars

\* a non-zero value was read while the graph holds edges
C10_Witness ==
    /\ ret.op = "GetCellValue" /\ ret.val # 0
    /\ \E a \in GraphCells : Get(refersTo, a) # {}

(***************************************************************************)
(* C11: a division whose right operand evaluates to 0 yields 0 and raises  *)
(* no error, so SetCellValue with such a formula succeeds and the cached   *)
(* value of the cell is 0; for a non-zero divisor the cached value is the  *)
(* integer quotient. (The one error such a call can return is the         *)
(* circular-reference error, and only when the graph holds a cycle.)       *)
(***************************************************************************)
\* the integer quotient of x by y # 0: the q with x = q * y + r, |r| < |y|
\* and a remainder r that is 0 or has the sign of x
Quotient(x, y) ==
    CHOOSE q \in (0 - Abs(x))..Abs(x) :
        LET r == x - q * y
        IN  Abs(r) < Abs(y) /\ (r = 0 \/ (r < 0) = (x < 0))

\* the last call was a SetCellValue that installed a division in its cell
DivisionInstalled ==
    /\ ret.op = "SetCellValue"
    /\ ret.arg = "string"
    /\ ret.cid \in DOMAIN cells
    /\ cells[ret.cid].expr.kind = "binary"
    /\ cells[ret.cid].expr.Op = TokenDiv

C11_DivisionByZeroIsZero ==
    DivisionInstalled =>
        LET x == evalExpr(cells, cells[ret.cid].expr.X)
            y == evalExpr(cells, cells[ret.cid].expr.Y)
        IN  /\ ret.err \in { "nil", "ErrCircRef" }
            /\ (\A c \in GraphCells : c \notin EdgeClosure(refersTo, Get(refersTo, c)))
                   => ret.err = "nil"
            /\ ret.err = "nil" =>
                   cells[ret.cid].currValue = IF y = 0 THEN 0 ELSE Quotient(x, y)

\* a division of a negative value by a cell that holds 0 was installed with
\* success
C11_Witness ==
    /\ DivisionInstalled
    /\ ret.err = "nil"
    /\ evalExpr(cells, cells[ret.cid].expr.Y) = 0
    /\ evalExpr(cells, cells[ret.cid].expr.X) < 0
    /\ cells[ret.cid].currValue = 0
(***************************************************************************)
(* Definitions used to state the properties of ParseExpr                   *)
(***************************************************************************)
\* the tokens of the text that was parsed
InputTokens ==
    tokenize(Text(arg)).tokens

\* the text began with '=' and ParseExpr returned a tree
Parsed ==
    arg.lead /\ out.err = "nil"

\* the text holds no parenthesis
ParenFree ==
    \A i \in 1..Len(InputTokens) : InputTokens[i] \notin { TokenLPar, TokenRPar }

IsAdditive(e) ==
    e.kind = "binary" /\ e.Op \in termTokens

IsMultiplicative(e) ==
    e.kind = "binary" /\ e.Op \in factorTokens

RECURSIVE SubExprs(_)
\* a tree and every tree below it
SubExprs(e) ==
    IF e.kind = "binary" THEN {e} \cup SubExprs(e.X) \cup SubExprs(e.Y)
    ELSE IF e.kind = "unary" THEN {e} \cup SubExprs(e.X)
    ELSE {e}

RECURSIVE BinOps(_)
\* the operators of the BinaryExpr nodes of a tree, from left to right
BinOps(e) ==
    IF e.kind = "binary" THEN BinOps(e.X) \o << e.Op >> \o BinOps(e.Y)
    ELSE IF e.kind = "unary" THEN BinOps(e.X)
    ELSE << >>

\* the token at i is an operator that follows an operand or a ')'
IsBinaryAt(T, i) ==
    /\ i > 1
    /\ T[i] \in termTokens \cup factorTokens
    /\ T[i - 1] \notin termTokens \cup factorTokens \cup { TokenLPar }

RECURSIVE BinaryOpTokens(_, _)
\* the operators in binary position among the first n tokens, from left to right
BinaryOpTokens(T, n) ==
    IF n = 0 THEN << >>
    ELSE IF IsBinaryAt(T, n) THEN Append(BinaryOpTokens(T, n - 1), T[n])
    ELSE BinaryOpTokens(T, n - 1)

(***************************************************************************)
(* C12: precedence: for a text without parentheses that mixes additive and *)
(* multiplicative operators, ParseExpr returns the tree in which each      *)
(* multiplicative operator is applied before the neighbouring additive     *)
(* ones: no operand of a '*' or '/' node is a '+' or '-' node, and the     *)
(* operators of the tree read from left to right as they do in the text.   *)
(***************************************************************************)
C12_MulBeforeAdd ==
    (Parsed /\ ParenFree) =>
        /\ \A n \in SubExprs(out.expr) :
               IsMultiplicative(n) => ~IsAdditive(n.X) /\ ~IsAdditive(n.Y)
        /\ BinOps(out.expr) = BinaryOpTokens(InputTokens, Len(InputTokens))

\* a text of the form x + y * z was parsed, with the product as the right operand
C12_Witness ==
    /\ Parsed /\ ParenFree
    /\ Len(InputTokens) = 5
    /\ InputTokens[2] = TokenAdd
    /\ IsAdditive(out.expr)
    /\ IsMultiplicative(out.expr.Y)

(***************************************************************************)
(* C13: binary operators of the same precedence level are left-associative:*)
(* in a text without parentheses the right operand of a node is never a    *)
(* node of the same level, and a run x op1 y op2 z of one level is         *)
(* BinaryExpr(BinaryExpr(x, op1, y), op2, z): the last operator is at the  *)
(* root and the operators before it are in its left operand.               *)
(***************************************************************************)
C13_LeftAssociative ==
    (Parsed /\ ParenFree) =>
        /\ \A n \in SubExprs(out.expr) :
               /\ IsAdditive(n) => ~IsAdditive(n.Y)
               /\ IsMultiplicative(n) => ~IsMultiplicative(n.Y)
        /\ LET ops == BinaryOpTokens(InputTokens, Len(InputTokens))
           IN  ( /\ Len(ops) > 0
                 /\ \/ \A i \in 1..Len(ops) : ops[i] \in termTokens
                    \/ \A i \in 1..Len(ops) : ops[i] \in factorTokens )
               => /\ out.expr.kind = "binary"
                  /\ out.expr.Op = ops[Len(ops)]
                  /\ BinOps(out.expr.X) = SubSeq(ops, 1, Len(ops) - 1)
                  /\ BinOps(out.expr.Y) = << >>

\* a text of the form x / y / z was parsed as (x / y) / z
C13_Witness ==
    /\ Parsed /\ ParenFree
    /\ Len(InputTokens) = 5
    /\ out.expr.kind = "binary" /\ out.expr.Op = TokenDiv
    /\ out.expr.X.kind = "binary" /\ out.expr.X.Op = TokenDiv
(***************************************************************************)
(* C14: a '-' in operand position is the unary negation of the unary or    *)
(* primary expression that follows and binds tighter than '*' and '/': in  *)
(* a text without parentheses the operand of a UnaryExpr is never a        *)
(* BinaryExpr, and the value of the tree is the value of the text read     *)
(* with every such '-' negating the one operand after it.                  *)
(***************************************************************************)
\* a cell store to evaluate trees against: A1 holds 3
SampleCells ==
    [c \in { [row |-> 0, column |-> 0] } |-> Cell(3, NoExpr)]

\* the value of an operand token against SampleCells
OperandValue(tok) ==
    IF ParseCellID(tok).ok
    THEN (IF ParseCellID(tok).id \in DOMAIN SampleCells
          THEN SampleCells[ParseCellID(tok).id].currValue
          ELSE 0)
    ELSE DecimalValue(tok, Len(tok))

\* the last operator of ops in binary position, 0 when there is none
LastBinary(T, ops) ==
    LET at == { i \in 1..Len(T) : IsBinaryAt(T, i) /\ T[i] \in ops }
    IN  IF at = {} THEN 0 ELSE CHOOSE i \in at : \A j \in at : j <= i

RECURSIVE UnaryValue(_)
\* the value of signs followed by one operand
UnaryValue(T) ==
    IF T[1] = TokenSub THEN 0 - UnaryValue(Tail(T)) ELSE OperandValue(T[1])

RECURSIVE FactorValue(_)
\* the value of a run of signed operands joined by '*' and '/'
FactorValue(T) ==
    LET i == LastBinary(T, factorTokens)
    IN  IF i = 0
        THEN UnaryValue(T)
        ELSE LET x == FactorValue(SubSeq(T, 1, i - 1))
                 y == UnaryValue(SubSeq(T, i + 1, Len(T)))
             IN  IF T[i] = TokenMul THEN x * y
                 ELSE IF y = 0 THEN 0 ELSE GoDiv(x, y)

RECURSIVE TermValue(_)
\* the value of a well-formed text without parentheses
TermValue(T) ==
    LET i == LastBinary(T, termTokens)
    IN  IF i = 0
        THEN FactorValue(T)
        ELSE LET x == TermValue(SubSeq(T, 1, i - 1))
                 y == FactorValue(SubSeq(T, i + 1, Len(T)))
             IN  IF T[i] = TokenAdd THEN x + y ELSE x - y

Unspaced ==
    [arg EXCEPT !.gaps = [i \in DOMAIN arg.gaps |-> 0]]

C15_WhitespaceInsensitive ==
    arg.lead => out = ParseExpr(Text(Unspaced))

\* a text with two spaces in it was parsed to a BinaryExpr
C15_Witness ==
    /\ arg.lead
    /\ Sum(arg.gaps) > 1
    /\ out.err = "nil"
    /\ out.expr.kind = "binary"

(***************************************************************************)
(* C16: ParseExpr succeeds only if the whole token sequence is one         *)
(* top-level expression: tokens left over after it (two adjacent operands, *)
(* an unmatched ')'), a missing operand after an operator and a '(' with   *)
(* no matching ')' are parse failures.                                     *)
(***************************************************************************)
\* the token is a number or a cell address
IsOperandToken(tok) ==
    ParseCellID(tok).ok \/ Atoi(tok).ok

RECURSIVE WellFormedFrom(_, _, _, _)
\* the tokens from i on complete an expression, read from left to right:
\* where an operand is expected come '-', '(' or an operand, where an operator
\* is expected come a binary operator or a ')' that closes an open '(';
\* the end comes after an operand with no '(' left open
WellFormedFrom(T, i, operandExpected, open) ==
    IF i > Len(T)
    THEN ~operandExpected /\ open = 0
    ELSE IF operandExpected
    THEN IF T[i] = TokenSub THEN WellFormedFrom(T, i + 1, TRUE, open)
         ELSE IF T[i] = TokenLPar THEN WellFormedFrom(T, i + 1, TRUE, open + 1)
         ELSE IF IsOperandToken(T[i]) THEN WellFormedFrom(T, i + 1, FALSE, open)
         ELSE FALSE
    ELSE IF T[i] \in termTokens \cup factorTokens THEN WellFormedFrom(T, i + 1, TRUE, open)
         ELSE IF T[i] = TokenRPar /\ open > 0 THEN WellFormedFrom(T, i + 1, FALSE, open - 1)
         ELSE FALSE

C16_WholeInputIsOneExpression ==
    arg.lead =>
        ((out.err = "nil") <=> WellFormedFrom(InputTokens, 1, TRUE, 0))

\* a text with tokens left over after a parenthesized expression was rejected
C16_Witness ==
    /\ arg.lead
    /\ out.err = "errTrailing"
    /\ Len(InputTokens) > 3
    /\ InputTokens[1] = TokenLPar
(***************************************************************************)
(* C17: every failure of formula parsing is reported as ErrExprParse: a    *)
(* missing leading marker, an unexpected character, an unexpected or       *)
(* missing token, unbalanced parentheses and trailing tokens all give an   *)
(* error that matches ErrExprParse.                                        *)
(***************************************************************************)
C17_EveryFailureIsErrExprParse ==
    out.err \notin { "nil", "panic" } => out.err = "ErrExprParse"

(***************************************************************************)
(* C18: a formula text that does not begin with '=', the empty text        *)
(* included, makes ParseExpr return a parse error; it never aborts the     *)
(* process.                                                                *)
(***************************************************************************)
C18_MissingMarkerIsParseError ==
    ~arg.lead => out.err = "ErrExprParse"
(***************************************************************************)
(* Definitions used to state the properties of ParseCellID                 *)
(***************************************************************************)
\* the length of the run of uppercase letters a string begins with
LetterRunLen(str) ==
    UpperRunEnd(str, 1) - 1

\* the whole string is one or more uppercase letters followed by one or more
\* decimal digits
WellFormedAddress(str) ==
    /\ LetterRunLen(str) >= 1
    /\ LetterRunLen(str) < Len(str)
    /\ \A i \in (LetterRunLen(str) + 1)..Len(str) : IsDigit(str[i])

RECURSIVE Bijective26(_, _)
\* the first n letters read as a bijective base-26 numeral, from the left:
\* A is 1, Z is 26, AA is 27
Bijective26(str, n) ==
    IF n = 0 THEN 0 ELSE 26 * Bijective26(str, n - 1) + IndexOf(UpperSeq, str[n])

\* the letter runs the specification gives the coordinate of
ExampleRows ==
    { << << "A" >>, 0 >>, << << "Z" >>, 25 >>, << << "A", "A" >>, 26 >>,
      << << "A", "B" >>, 27 >>, << << "A", "Z" >>, 51 >>, << << "A", "B", "C" >>, 730 >> }

\* the runs of one to three of the letters typed
LetterRuns ==
    UNION { [1..n -> { "A", "B", "C", "Z" }] : n \in 1..3 }

(***************************************************************************)
(* C19: the codec decodes the letter run as a bijective base-26 numeral    *)
(* minus one (A is 0, Z 25, AA 26, AB 27, AZ 51, ABC 730) and the digit    *)
(* run as the decimal number minus one, so "A1" is (0, 0) and "AB32" is    *)
(* (row 27, column 31); distinct letter runs decode to distinct            *)
(* coordinates.                                                            *)
(***************************************************************************)
C19_CodecIsBijectiveBase26 ==
    WellFormedAddress(arg) =>
        LET n == LetterRunLen(arg)
            letters == SubSeq(arg, 1, n)
            digits == SubSeq(arg, n + 1, Len(arg))
        IN  /\ out.ok
            /\ out.id.row = Bijective26(letters, n) - 1
            /\ out.id.column = DecimalValue(digits, Len(digits)) - 1
            /\ \A ex \in ExampleRows : letters = ex[1] => out.id.row = ex[2]
            /\ arg = << "A", "1" >> => out.id = [row |-> 0, column |-> 0]
            /\ arg = << "A", "B", "3", "2" >> => out.id = [row |-> 27, column |-> 31]
            /\ \A other \in LetterRuns :
                   other # letters => decodeRowExpr(other).val # out.id.row

\* "AB32" was decoded
C19_Witness ==
    /\ arg = << "A", "B", "3", "2" >>
    /\ out.ok
    /\ out.id = [row |-> 27, column |-> 31]

(***************************************************************************)
(* C20: ParseCellID fails with the address-parse error for every string    *)
(* that is not, in its entirety, one or more uppercase letters followed by *)
(* one or more decimal digits.                                             *)
(***************************************************************************)
C20_MalformedAddressFails ==
    ~WellFormedAddress(arg) => ~out.ok

(***************************************************************************)
(* C21: SetCellValue with a value that is neither an integer nor a string  *)
(* returns the value-type error and leaves the set of stored cells, every  *)
(* cell's expression and cached value, and both adjacency maps unchanged.  *)
(***************************************************************************)
C21_ValueTypeErrorChangesNothing ==
    [][ (nops' = nops + 1 /\ ret'.cid # NoCellID /\ ret'.arg = "other") =>
          /\ ret'.err = "ErrValueType"
          /\ UNCHANGED << cells, refersTo, referredFrom >> ]_vars

\* the last call was a SetCellValue that parsed its formula and installed it
FormulaInstalled ==
    /\ ret.op = "SetCellValue"
    /\ ret.arg = "string"
    /\ ret.err \in { "nil", "ErrCircRef" }

(***************************************************************************)
(* C22: after SetCellValue(c, formula) has installed a new expression,     *)
(* refersTo[c] is exactly the set of distinct CellIDs that appear as a     *)
(* cell reference anywhere in the new tree (under a unary minus, inside    *)
(* parentheses, on either side of a binary operator), and no other edge    *)
(* out of c is left in either map.                                         *)
(***************************************************************************)
C22_EdgesAreTheReferences ==
    FormulaInstalled =>
        /\ Get(refersTo, ret.cid) = AllRefs(cells[ret.cid].expr)
        /\ \A t \in GraphCells :
               (ret.cid \in Get(referredFrom, t)) <=> (t \in AllRefs(cells[ret.cid].expr))

(***************************************************************************)
(* C23: in every state after a completed SetCellValue, a cell that holds   *)
(* no expression (a literal cell, one whose earlier formula was            *)
(* overwritten by a literal integer included) has no outgoing edge:        *)
(* refersTo of that cell is empty and it is in no referredFrom set.        *)
(***************************************************************************)
C23_LiteralCellHasNoEdges ==
    \A c \in DOMAIN cells :
        cells[c].expr = NoExpr =>
            /\ Get(refersTo, c) = {}
            /\ \A t \in GraphCells : c \notin Get(referredFrom, t)

\* cell c and every cell that refers to c directly or through a chain of
\* referredFrom edges
Dependents(rf, c) ==
    EdgeClosure(rf, {c})

(***************************************************************************)
(* C24: whenever SetCellValue on cell c returns success, the evaluation    *)
(* order computed for that call contains c and every cell that depends on  *)
(* c directly or transitively through referredFrom, so each of them is     *)
(* recomputed during the call. (A call whose topSort returns an order goes *)
(* on to the evaluation loop and returns nil.)                             *)
(***************************************************************************)
C24_OrderCoversDependents ==
    [][ (run.pc = "topSort" /\ run'.pc = "eval") =>
          Dependents(referredFrom, run.cid) \subseteq Range(run'.result) ]_vars

(***************************************************************************)
(* C25: when topSort succeeds, the order it returns contains each cell     *)
(* reachable from the start nodes through refersTo exactly once, and every *)
(* cell appears after all of the cells it references, for every order in   *)
(* which neighbours and start nodes are visited.                           *)
(***************************************************************************)
C25_TopSortIsTopological ==
    out.err = "nil" =>
        /\ Range(out.order) = EdgeClosure(refersTo, Range(out.startNodes))
        /\ Cardinality(Range(out.order)) = Len(out.order)
        /\ \A i \in 1..Len(out.order) :
               \A n \in Get(refersTo, out.order[i]) :
                   \E j \in 1..(i - 1) : out.order[j] = n

\* a diamond was sorted: one cell refers to the two others, one of which
\* refers to the third
C25_Witness ==
    /\ out.err = "nil"
    /\ Len(out.order) = 3
    /\ Len(out.startNodes) = 1
    /\ Get(refersTo, out.order[3]) = { out.order[1], out.order[2] }
    /\ Get(refersTo, out.order[2]) = { out.order[1] }

(***************************************************************************)
(* C26: when SetCellValue(c, formula) fails with the circular-reference    *)
(* error, the mutation is not rolled back: cell c keeps the rejected       *)
(* expression, and refersTo[c] and referredFrom hold the edges of the      *)
(* rejected formula, one to every cell it references.                      *)
(***************************************************************************)
C26_RejectedFormulaStays ==
    (ret.op = "SetCellValue" /\ ret.arg = "string" /\ ret.err = "ErrCircRef") =>
        /\ parsed[ret.s].err = "nil"
        /\ cells[ret.cid].expr = parsed[ret.s].expr
        /\ Get(refersTo, ret.cid) = AllRefs(parsed[ret.s].expr)
        /\ \A t \in GraphCells :
               (ret.cid \in Get(referredFrom, t)) <=> (t \in AllRefs(parsed[ret.s].expr))

(***************************************************************************)
(* C27: when SetCellValue on cell c fails with the circular-reference      *)
(* error, no evaluation step runs: the cached value of every cell other    *)
(* than c is the same as before the call.                                  *)
(***************************************************************************)
C27_RejectionEvaluatesNothing ==
    [][ (nops' = nops + 1 /\ ret'.err = "ErrCircRef") =>
          \A d \in DOMAIN cells' :
              d # ret'.cid =>
                  /\ d \in DOMAIN cells
                  /\ cells'[d].currValue = cells[d].currValue ]_vars

\* a call was rejected while a cell that refers to its cell holds a value
\* other than 0
C27_Witness ==
    /\ ret.op = "SetCellValue"
    /\ ret.err = "ErrCircRef"
    /\ \E d \in DOMAIN cells :
           /\ d # ret.cid
           /\ ret.cid \in Get(refersTo, d)
           /\ cells[d].currValue # 0

(***************************************************************************)
(* C28: SetCellValue returns the circular-reference error only if, with    *)
(* the new value installed, the references of the expressions currently    *)
(* held by the cells form a cycle; a mutation that leaves them acyclic     *)
(* succeeds, also when a cell on the path used to hold a formula that has  *)
(* since been overwritten by a literal.                                    *)
(***************************************************************************)
C28_RejectedOnlyForCurrentCycle ==
    (ret.op = "SetCellValue" /\ ret.err = "ErrCircRef") =>
        \E c \in DOMAIN cells : c \in FormulaReach(cells, c)

(***************************************************************************)
(* C29: the store stays usable after a circular-reference failure: in      *)
(* every reachable state, SetCellValue(c, n) with a literal integer n      *)
(* returns success (never the circular-reference error), in particular     *)
(* when c is the cell whose formula was just rejected as circular.         *)
(***************************************************************************)
C29_LiteralAlwaysAccepted ==
    (ret.op = "SetCellValue" /\ ret.arg = "int" /\ ret.cid # NoCellID) => ret.err = "nil"

\* the val argument of the call that ret records
CallValue(r) ==
    [type |-> r.arg, n |-> r.n, s |-> r.s]

\* what a caller can observe of an outcome of SetCellValue: the error and the
\* cached value of every cell
Observed(o) ==
    [err |-> o.err, values |-> [d \in DOMAIN o.cells |-> o.cells[d].currValue]]

(***************************************************************************)
(* C30: determinism: the outcome of each SetCellValue (success or which    *)
(* error) and the resulting cached value of every cell do not depend on    *)
(* the order in which the map-backed edge sets are iterated during the     *)
(* frontier search and the topological sort: every order gives what the    *)
(* order taken gave.                                                       *)
(***************************************************************************)
C30_IterationOrderIsUnobservable ==
    [][ (nops' = nops + 1 /\ ret'.cid # NoCellID) =>
          \A o \in setCell(cells, Graph, ret'.cid, CallValue(ret')) :
              Observed(o) = Observed([err |-> ret'.err, cells |-> cells']) ]_vars

(***************************************************************************)
(* C31: for every formula string that starts with '=', the tokenizer       *)
(* finishes with either a token sequence or a parse error and never reads  *)
(* a position at or beyond the end of the input, also when the string ends *)
(* with one or more spaces.                                                *)
(***************************************************************************)
C31_TokenizeStaysInBounds ==
    (Len(arg) > 0 /\ arg[1] = "=") => out.err \in { "nil", "ErrExprParse" }

(***************************************************************************)
(* C32: every CellID that ParseCellID returns without error has a          *)
(* non-negative row and a non-negative column, for every accepted address  *)
(* string (the digit run being a 1-indexed number).                        *)
(***************************************************************************)
C32_CoordinatesAreNonNegative ==
    out.ok => (out.id.row >= 0 /\ out.id.column >= 0)

=============================================================================
